---- MODULE Spec2Model ----
(***************************************************************************)
(* Model of the cPanel libdns provider (src/provider.go).                  *)
(*                                                                         *)
(* A Go string is a sequence of byte values (0..255).  A base64 text is a  *)
(* sequence of character codes: 0..63 is the alphabet character with that  *)
(* sextet value, PadChar is '=', anything larger is a character outside    *)
(* the alphabet.  Record types are only compared, never transformed, and   *)
(* are kept as TLA+ strings.                                               *)
(***************************************************************************)
EXTENDS Integers, Sequences, FiniteSets, TLC

(***************************************************************************)
(* Bounds of the model.                                                    *)
(***************************************************************************)
\* longest zone file the remote starts with (lines)
MaxLines == 2
\* longest input record list handed to an operation by the single caller
MaxRecs == 2
\* longest input record list handed to an operation by racing callers
MaxRaceRecs == 1

(***************************************************************************)
(* strings, strconv                                                        *)
(***************************************************************************)
Range(s) == {s[i] : i \in 1..Len(s)}

\* unicode.IsSpace restricted to ASCII: \t \n \v \f \r and space
IsSpace(b) == b \in {9, 10, 11, 12, 13, 32}

HasSuffix(s, suffix) ==
    /\ Len(s) >= Len(suffix)
    /\ SubSeq(s, Len(s) - Len(suffix) + 1, Len(s)) = suffix

\* (mutant) every trailing copy of the suffix is removed
RECURSIVE TrimSuffixAll(_, _)
TrimSuffixAll(s, suffix) ==
    IF Len(suffix) > 0 /\ HasSuffix(s, suffix)
    THEN TrimSuffixAll(SubSeq(s, 1, Len(s) - Len(suffix)), suffix)
    ELSE s

\* strings.TrimSuffix: at most one copy of the suffix is removed
TrimSuffix(s, suffix) ==
    IF HasSuffix(s, suffix) THEN SubSeq(s, 1, Len(s) - Len(suffix)) ELSE s

\* strings.Join(parts, sep)
RECURSIVE Join(_, _)
Join(parts, sep) ==
    IF parts = <<>> THEN <<>>
    ELSE IF Len(parts) = 1 THEN parts[1]
    ELSE parts[1] \o sep \o Join(Tail(parts), sep)

\* strings.Fields: the maximal runs of non-space bytes, in order
RECURSIVE FieldsFrom(_, _)
FieldsFrom(s, cur) ==
    IF s = <<>> THEN (IF cur = <<>> THEN <<>> ELSE <<cur>>)
    ELSE IF IsSpace(Head(s))
         THEN (IF cur = <<>> THEN <<>> ELSE <<cur>>) \o FieldsFrom(Tail(s), <<>>)
         ELSE FieldsFrom(Tail(s), Append(cur, Head(s)))

Fields(s) == FieldsFrom(s, <<>>)

\* decimal digits of a natural number, as ASCII bytes
RECURSIVE Digits(_)
Digits(n) ==
    IF n < 10 THEN <<48 + n>> ELSE Digits(n \div 10) \o <<48 + (n % 10)>>

\* strconv.Itoa
Itoa(n) == IF n < 0 THEN <<45>> \o Digits(0 - n) ELSE Digits(n)

(***************************************************************************)
(* encoding/base64, StdEncoding (padded, not strict)                       *)
(***************************************************************************)
PadChar == 64

IsSextet(c) == c >= 0 /\ c < 64

\* the three bytes of a 24-bit quantum
QuantumBytes(d0, d1, d2, d3) ==
    LET val == d0 * 262144 + d1 * 4096 + d2 * 64 + d3
    IN  <<(val \div 65536) % 256, (val \div 256) % 256, val % 256>>

\* Encoding.decodeQuantum on the text s (no line breaks in it): the bytes it
\* yields, the text left, and whether it reports CorruptInputError.
DecodeQuantum(s) ==
    LET n == Len(s)
        Bad == [out |-> <<>>, rest |-> <<>>, err |-> TRUE]
        \* number of leading alphabet characters among the first four
        j == IF n >= 1 /\ IsSextet(s[1])
             THEN IF n >= 2 /\ IsSextet(s[2])
                  THEN IF n >= 3 /\ IsSextet(s[3])
                       THEN IF n >= 4 /\ IsSextet(s[4]) THEN 4 ELSE 3
                       ELSE 2
                  ELSE 1
             ELSE 0
    IN  IF j = 4
        THEN [out |-> QuantumBytes(s[1], s[2], s[3], s[4]),
              rest |-> SubSeq(s, 5, n), err |-> FALSE]
        ELSE IF j = n THEN Bad                      \* input ends inside a quantum
        ELSE IF s[j + 1] # PadChar THEN Bad         \* character outside the alphabet
        ELSE IF j < 2 THEN Bad                      \* padding too early
        ELSE IF j = 2 /\ (n < 4 \/ s[4] # PadChar) THEN Bad
        ELSE [out |-> SubSeq(QuantumBytes(s[1], s[2], IF j = 3 THEN s[3] ELSE 0, 0),
                             1, j - 1),
              rest |-> <<>>,
              err |-> n > 4]                        \* trailing garbage after padding

\* base64.StdEncoding.DecodeString: the bytes decoded before the first corrupt
\* quantum are returned together with the error.
RECURSIVE DecodeString(_)
DecodeString(s) ==
    IF s = <<>> THEN [out |-> <<>>, err |-> FALSE]
    ELSE LET q == DecodeQuantum(s)
         IN  IF q.err THEN [out |-> q.out, err |-> TRUE]
             ELSE LET r == DecodeString(q.rest)
                  IN  [out |-> q.out \o r.out, err |-> r.err]

\* base64.StdEncoding.EncodeToString, as the remote produces dname_b64/data_b64
RECURSIVE EncodeToString(_)
EncodeToString(b) ==
    IF b = <<>> THEN <<>>
    ELSE IF Len(b) = 1
    THEN <<b[1] \div 4, (b[1] % 4) * 16, PadChar, PadChar>>
    ELSE IF Len(b) = 2
    THEN <<b[1] \div 4, (b[1] % 4) * 16 + b[2] \div 16, (b[2] % 16) * 4, PadChar>>
    ELSE <<b[1] \div 4, (b[1] % 4) * 16 + b[2] \div 16,
           (b[2] % 16) * 4 + b[3] \div 64, b[3] % 64>>
         \o EncodeToString(SubSeq(b, 4, Len(b)))

(***************************************************************************)
(* Sample data.  "z." is the zone; w, t, b are host names.                 *)
(***************************************************************************)
NoMetadata == [k \in {} |-> <<>>]

\* A uint32 is kept as its two 16-bit halves.
\* uint32(n) of an int n
Uint32(n) == [hi |-> (n \div 65536) % 65536, lo |-> n % 65536]

\* the number a uint32 is written as (json.Marshal)
Uint32Number(u) == u.hi * 65536 + u.lo

Rec(type, name, value, ttl) ==
    [Type |-> type, Name |-> name, Value |-> value, TTL |-> Uint32(ttl),
     Metadata |-> NoMetadata]

\* a zone-file line as the remote keeps it and parse_zone reports it
Line(type, ttl, dname, data) ==
    [record_type |-> type, ttl |-> ttl,
     dname_b64 |-> EncodeToString(dname),
     data_b64 |-> [i \in 1..Len(data) |-> EncodeToString(data[i])]]

ZoneNames == { <<122, 46>> }                                   \* "z."

\* A w.z. 1
lA == Line("A", 300, <<119, 46, 122, 46>>, << <<49>> >>)
\* A w.z. 2 (same type and name as lA, another value)
lA2 == Line("A", 300, <<119, 46, 122, 46>>, << <<50>> >>)
\* SOA z. n a 42
lSOA == Line("SOA", 86400, <<122, 46>>, << <<110>>, <<97>>, <<52, 50>> >>)
\* SOA z. n 7 (fewer than three fields)
lSOAshort == Line("SOA", 86400, <<122, 46>>, << <<110>>, <<55>> >>)
\* TXT t.z..z. "a" "b" (two value fragments, the zone suffix twice, ttl -1)
lTXT == Line("TXT", -1, <<116, 46, 122, 46, 46, 122, 46>>, << <<97>>, <<98>> >>)
\* A line whose dname_b64 holds a character outside the base64 alphabet
lBad == [record_type |-> "A", ttl |-> 300, dname_b64 |-> <<29, 70, PadChar, PadChar>>,
         data_b64 |-> << EncodeToString(<<49>>) >>]

LinePool == {lA, lA2, lSOA, lSOAshort, lTXT, lBad}

rA == Rec("A", <<119>>, <<49>>, 300)
rSOA == Rec("SOA", <<122, 46>>, <<110, 32, 97, 32, 52, 50>>, 86400)
rTXT == Rec("TXT", <<116, 46, 122, 46>>, <<97, 32, 98>>, 300)
\* TXT b with the one-byte value 0xFF, which is not UTF-8 (in no initial zone)
rRaw == Rec("TXT", <<98>>, <<255>>, 300)

RecordPool == {rA, rSOA, rTXT, rRaw}
RacePool == {rA, rSOA}

SeqsUpTo(S, n) == UNION {[1..k -> S] : k \in 0..n}

InitZones == SeqsUpTo(LinePool, MaxLines)
InputLists == SeqsUpTo(RecordPool, MaxRecs)
RaceLists == SeqsUpTo(RacePool, MaxRaceRecs)
RaceZones == { <<lSOA, lA>>, <<lA, lSOA, lA>>, <<lA2, lA>> }

Clients == {1, 2}
Ops == {"GetRecords", "AppendRecords", "DeleteRecords", "SetRecords"}

(***************************************************************************)
(* The remote service, as the calls of the provider address it.  It keeps  *)
(* the zone file as a sequence of lines, numbers them from 0 on every      *)
(* read, applies every mass_edit_zone call it answers with status 1        *)
(* whatever serial the call carries, and changes nothing when a call       *)
(* fails.                                                                  *)
(***************************************************************************)
\* DNS::parse_zone: one entry per line, line_index its position in the file
ParseZone(z) ==
    [i \in 1..Len(z) |->
        [line_index |-> i - 1, record_type |-> z[i].record_type, ttl |-> z[i].ttl,
         dname_b64 |-> z[i].dname_b64, data_b64 |-> z[i].data_b64]]

\* the HTTP response to a parse_zone call, by what happens to the call
ParseZoneResponse(z, outcome) ==
    [http |-> IF outcome = "transport" THEN "fail" ELSE "ok",
     status |-> IF outcome = "status0" THEN 0 ELSE 1,
     data |-> [wellformed |-> outcome # "baddata",
               entries |-> IF outcome = "ok" THEN ParseZone(z) ELSE <<>>]]

\* the HTTP response to a mass_edit_zone call
MassEditResponse(outcome) ==
    [http |-> IF outcome = "transport" THEN "fail" ELSE "ok",
     status |-> IF outcome = "status0" THEN 0 ELSE 1,
     data |-> [wellformed |-> TRUE, entries |-> <<>>]]

RECURSIVE KeepFrom(_, _, _)
KeepFrom(z, idx, rm) ==
    IF z = <<>> THEN <<>>
    ELSE (IF Itoa(idx) \in rm THEN <<>> ELSE <<Head(z)>>)
         \o KeepFrom(Tail(z), idx + 1, rm)

\* DNS::mass_edit_zone applied: the lines named in 'remove' go, the entries of
\* 'add' are stored at the end, each as the line parse_zone will report.
ApplyMassEdit(z, p) ==
    KeepFrom(z, 0, Range(p.remove.items))
    \o [i \in 1..Len(p.add.items) |->
          Line(p.add.items[i].record_type, p.add.items[i].ttl,
               p.add.items[i].dname, p.add.items[i].data)]

(***************************************************************************)
(* Provider                                                                *)
(***************************************************************************)
\* dial, after the request was sent: the envelope is checked
dial(resp) ==
    IF resp.http # "ok" THEN [data |-> [wellformed |-> TRUE, entries |-> <<>>],
                              err |-> "transport"]
    ELSE IF resp.status # 1 THEN [data |-> [wellformed |-> TRUE, entries |-> <<>>],
                                  err |-> "API call failed"]
    ELSE [data |-> resp.data, err |-> "nil"]

\* (mutant) line_index counted from one
ProjectOneBased(zn, e) ==
    LET nameBytes == DecodeString(e.dname_b64).out
        dataParts == [i \in 1..Len(e.data_b64) |-> DecodeString(e.data_b64[i]).out]
    IN  [Type |-> e.record_type,
         Name |-> TrimSuffix(nameBytes, <<46>> \o zn),
         Value |-> Join(dataParts, <<32>>),
         TTL |-> Uint32(e.ttl),
         Metadata |-> [k \in {"line_index"} |-> Itoa(e.line_index + 1)]]

\* the record GetRecords builds from one entry (decode errors are dropped)
Project(zn, e) ==
    LET nameBytes == DecodeString(e.dname_b64).out
        dataParts == [i \in 1..Len(e.data_b64) |-> DecodeString(e.data_b64[i]).out]
    IN  [Type |-> e.record_type,
         Name |-> TrimSuffix(nameBytes, <<46>> \o zn),
         Value |-> Join(dataParts, <<32>>),
         TTL |-> Uint32(e.ttl),
         Metadata |-> [k \in {"line_index"} |-> Itoa(e.line_index)]]

GetRecords(zn, resp) ==
    LET d == dial(resp)
    IN  IF d.err # "nil" THEN [records |-> <<>>, err |-> d.err]
        ELSE IF ~d.data.wellformed THEN [records |-> <<>>, err |-> "json"]
        ELSE [records |-> [i \in 1..Len(d.data.entries) |-> Project(zn, d.data.entries[i])],
              err |-> "nil"]

\* utf8.DecodeRuneInString: the length of the UTF-8 encoding b starts with,
\* 0 when it starts with none
IsContinuation(x) == x >= 128 /\ x <= 191

RuneLen(b) ==
    IF b[1] < 128 THEN 1
    ELSE IF b[1] >= 194 /\ b[1] <= 223 /\ Len(b) >= 2 /\ IsContinuation(b[2]) THEN 2
    ELSE IF /\ b[1] >= 224 /\ b[1] <= 239 /\ Len(b) >= 3
            /\ IsContinuation(b[2]) /\ IsContinuation(b[3])
            /\ (b[1] = 224 => b[2] >= 160) /\ (b[1] = 237 => b[2] <= 159) THEN 3
    ELSE IF /\ b[1] >= 240 /\ b[1] <= 244 /\ Len(b) >= 4
            /\ IsContinuation(b[2]) /\ IsContinuation(b[3]) /\ IsContinuation(b[4])
            /\ (b[1] = 240 => b[2] >= 144) /\ (b[1] = 244 => b[2] <= 143) THEN 4
    ELSE 0

\* json.Marshal of a string, as the reader of the JSON text gets it back: the
\* string coerced to valid UTF-8, each invalid byte replaced by U+FFFD
RECURSIVE JSONString(_)
JSONString(b) ==
    IF b = <<>> THEN <<>>
    ELSE IF RuneLen(b) = 0 THEN <<239, 191, 189>> \o JSONString(Tail(b))
    ELSE SubSeq(b, 1, RuneLen(b)) \o JSONString(SubSeq(b, RuneLen(b) + 1, Len(b)))

\* json.Marshal of a slice: a nil slice is null
MarshalList(l) ==
    IF l = <<>> THEN [kind |-> "null", items |-> <<>>]
    ELSE [kind |-> "array", items |-> l]

\* json.Marshal of the add list
MarshalAdd(add) ==
    MarshalList([i \in 1..Len(add) |->
        [record_type |-> add[i].record_type,
         dname |-> JSONString(add[i].dname),
         ttl |-> add[i].ttl,
         data |-> [k \in 1..Len(add[i].data) |-> JSONString(add[i].data[k])]]])

\* json.Marshal of the removal list
MarshalRemove(toRemove) ==
    MarshalList([i \in 1..Len(toRemove) |-> JSONString(toRemove[i])])

Absent == [kind |-> "absent", items |-> <<>>]

\* AppendRecords: the serial of the first SOA record, "0" by default
AppendSerial(existing) ==
    LET soas == SelectSeq(existing, LAMBDA r : r.Type = "SOA")
    IN  IF soas = <<>> THEN <<48>>
        ELSE LET parts == Fields(soas[1].Value)
             IN  IF Len(parts) >= 3 THEN parts[3] ELSE <<48>>

\* (mutant) the name and the zone joined without the dot
AddListNoDot(zn, records) ==
    [i \in 1..Len(records) |->
        [record_type |-> records[i].Type,
         dname |-> records[i].Name \o zn,
         ttl |-> Uint32Number(records[i].TTL),
         data |-> << records[i].Value >>]]

\* AppendRecords: the add list
AddList(zn, records) ==
    [i \in 1..Len(records) |->
        [record_type |-> records[i].Type,
         dname |-> records[i].Name \o <<46>> \o zn,
         ttl |-> Uint32Number(records[i].TTL),
         data |-> << records[i].Value >>]]

AppendParams(zn, records, existing) ==
    [zone |-> zn, serial |-> AppendSerial(existing),
     add |-> MarshalAdd(AddList(zn, records)), remove |-> Absent]

\* (mutant) the value is not compared
MatchesTypeName(r, ex) == r.Type = ex.Type /\ r.Name = ex.Name

\* DeleteRecords: does the input record r match the existing record ex
Matches(r, ex) == r.Type = ex.Type /\ r.Name = ex.Name /\ r.Value = ex.Value

\* (mutant) only the first input record is looked up
MatchedFirstInput(records, existing) ==
    IF records = <<>> THEN <<>>
    ELSE SelectSeq(existing, LAMBDA ex : Matches(Head(records), ex))

\* DeleteRecords: the existing records hit by the nested loops, in loop order
RECURSIVE Matched(_, _)
Matched(records, existing) ==
    IF records = <<>> THEN <<>>
    ELSE SelectSeq(existing, LAMBDA ex : Matches(Head(records), ex))
         \o Matched(Tail(records), existing)

\* (mutant) the scan stops at the first match
ToRemoveFirst(records, existing) ==
    LET m == Matched(records, existing)
    IN  IF m = <<>> THEN <<>> ELSE << m[1].Metadata["line_index"] >>

\* DeleteRecords: the removal list
ToRemove(records, existing) ==
    LET m == Matched(records, existing)
    IN  [i \in 1..Len(m) |-> m[i].Metadata["line_index"]]

\* DeleteRecords: the serial, set only by matched SOA records
RECURSIVE SerialOver(_, _)
SerialOver(m, serial) ==
    IF m = <<>> THEN serial
    ELSE SerialOver(Tail(m),
                    IF Head(m).Type = "SOA" /\ Len(Fields(Head(m).Value)) >= 3
                    THEN Fields(Head(m).Value)[3] ELSE serial)

DeleteSerial(records, existing) == SerialOver(Matched(records, existing), <<48>>)

DeleteParams(zn, records, existing) ==
    [zone |-> zn, serial |-> DeleteSerial(records, existing),
     add |-> Absent, remove |-> MarshalRemove(ToRemove(records, existing))]

\* (mutant) the writers go on to mass_edit_zone whatever the read returned
AfterReadIgnoringError(ph, err) ==
    IF ph = "GetRecords" THEN "done" ELSE "edit"

\* where an operation stands once its GetRecords call has returned err:
\* every operation returns on an error, GetRecords returns the records, the
\* writers go on to mass_edit_zone
AfterRead(ph, err) ==
    IF err # "nil" THEN "done"
    ELSE IF ph = "GetRecords" THEN "done"
    ELSE "edit"

\* (mutant) SetRecords returns after its DeleteRecords
AfterEditNoAppend(o, ph, err) == "done"

\* where operation o, running ph, stands once its mass_edit_zone call has
\* returned err: SetRecords goes on to AppendRecords after a DeleteRecords
\* without error, everything else returns
AfterEdit(o, ph, err) ==
    IF err # "nil" THEN "done"
    ELSE IF o = "SetRecords" /\ ph = "DeleteRecords" THEN "read"
    ELSE "done"

NoParams == [zone |-> <<>>, serial |-> <<>>, add |-> Absent, remove |-> Absent]
NoReturn == [records |-> <<>>, err |-> "nil"]

(***************************************************************************)
(* State                                                                   *)
(***************************************************************************)
VARIABLES
    zname,      \* the zone's name
    zone,       \* the remote's zone file: a sequence of lines
    pc,         \* per caller: "idle", "read" (parse_zone next), "edit"
                \* (mass_edit_zone next), "done" (returned)
    op,         \* per caller: the exported operation it called
    phase,      \* per caller: the operation running now (SetRecords runs two)
    recs,       \* per caller: the input records
    existing,   \* per caller: what the last GetRecords returned
    params,     \* per caller: the parameters of the mass_edit_zone call to make
    ret,        \* per caller: what the exported operation returned
    log         \* per caller: the remote calls of the operation, each with the
                \* zone file it met

vars == <<zname, zone, pc, op, phase, recs, existing, params, ret, log>>

InitCallers ==
    /\ zname \in ZoneNames
    /\ pc = [c \in Clients |-> "idle"]
    /\ op = [c \in Clients |-> "GetRecords"]
    /\ phase = [c \in Clients |-> "GetRecords"]
    /\ recs = [c \in Clients |-> <<>>]
    /\ existing = [c \in Clients |-> <<>>]
    /\ params = [c \in Clients |-> NoParams]
    /\ ret = [c \in Clients |-> NoReturn]
    /\ log = [c \in Clients |-> <<>>]

Init ==
    /\ zone \in InitZones
    /\ InitCallers

InitRace ==
    /\ zone \in RaceZones
    /\ InitCallers

ReadEntry(z, r) ==
    [fn |-> "parse_zone", params |-> NoParams, err |-> r.err, before |-> z]

EditEntry(z, p, e) ==
    [fn |-> "mass_edit_zone", params |-> p, err |-> e, before |-> z]

\* An exported operation is called.
Call(c, o, rs) ==
    /\ pc[c] = "idle"
    /\ pc' = [pc EXCEPT ![c] = "read"]
    /\ op' = [op EXCEPT ![c] = o]
    /\ phase' = [phase EXCEPT ![c] = IF o = "SetRecords" THEN "DeleteRecords" ELSE o]
    /\ recs' = [recs EXCEPT ![c] = IF o = "GetRecords" THEN <<>> ELSE rs]
    /\ UNCHANGED <<zname, zone, existing, params, ret, log>>

\* The parse_zone call of GetRecords completes; the caller runs on to its
\* return or to its mass_edit_zone call.
ParseZoneCall(c, outcome) ==
    /\ pc[c] = "read"
    /\ LET r == GetRecords(zname, ParseZoneResponse(zone, outcome))
       IN  /\ log' = [log EXCEPT ![c] = Append(@, ReadEntry(zone, r))]
           /\ existing' = [existing EXCEPT ![c] = r.records]
           /\ pc' = [pc EXCEPT ![c] = AfterRead(phase[c], r.err)]
           /\ IF AfterRead(phase[c], r.err) = "done"
              THEN /\ ret' = [ret EXCEPT ![c] =
                          IF r.err # "nil" THEN [records |-> <<>>, err |-> r.err]
                          ELSE r]
                   /\ UNCHANGED params
              ELSE /\ params' = [params EXCEPT ![c] =
                          IF phase[c] = "AppendRecords"
                          THEN AppendParams(zname, recs[c], r.records)
                          ELSE DeleteParams(zname, recs[c], r.records)]
                   /\ UNCHANGED ret
    /\ UNCHANGED <<zname, zone, op, phase, recs>>

\* The mass_edit_zone call completes; AppendRecords or DeleteRecords returns,
\* and SetRecords goes on from its DeleteRecords to its AppendRecords.
MassEditCall(c, outcome) ==
    /\ pc[c] = "edit"
    /\ LET d == dial(MassEditResponse(outcome))
       IN  /\ log' = [log EXCEPT ![c] = Append(@, EditEntry(zone, params[c], d.err))]
           /\ zone' = IF outcome = "ok" THEN ApplyMassEdit(zone, params[c]) ELSE zone
           /\ pc' = [pc EXCEPT ![c] = AfterEdit(op[c], phase[c], d.err)]
           /\ IF AfterEdit(op[c], phase[c], d.err) = "done"
              THEN /\ ret' = [ret EXCEPT ![c] =
                          IF d.err # "nil" THEN [records |-> <<>>, err |-> d.err]
                          ELSE [records |-> recs[c], err |-> "nil"]]
                   /\ UNCHANGED phase
              ELSE /\ phase' = [phase EXCEPT ![c] = "AppendRecords"]
                   /\ UNCHANGED ret
    /\ UNCHANGED <<zname, op, recs, existing, params>>

ReadOutcomes == {"ok", "transport", "status0", "baddata"}
EditOutcomes == {"ok", "transport", "status0"}

\* one caller, no other writer
Next ==
    \/ \E o \in Ops, rs \in InputLists : Call(1, o, rs)
    \/ \E outcome \in ReadOutcomes : ParseZoneCall(1, outcome)
    \/ \E outcome \in EditOutcomes : MassEditCall(1, outcome)

Spec == Init /\ [][Next]_vars

\* two callers running independently on the same zone
NextRace ==
    \E c \in Clients :
        \/ \E o \in Ops, rs \in RaceLists : Call(c, o, rs)
        \/ \E outcome \in ReadOutcomes : ParseZoneCall(c, outcome)
        \/ \E outcome \in EditOutcomes : MassEditCall(c, outcome)

SpecRace == InitRace /\ [][NextRace]_vars

(***************************************************************************)
(* Vocabulary of the properties                                            *)
(***************************************************************************)
\* what a successful GetRecords reports for the zone file z
RecordsOf(z) == GetRecords(zname, ParseZoneResponse(z, "ok")).records

\* equality on (type, name, value)
SameTNV(r, ex) == r.Type = ex.Type /\ r.Name = ex.Name /\ r.Value = ex.Value

HitBy(rs, ex) == \E j \in 1..Len(rs) : SameTNV(rs[j], ex)

\* positions of the lines of z that match some record of rs
HitLines(z, rs) == {i \in 1..Len(z) : HitBy(rs, RecordsOf(z)[i])}

\* the lines of z that match no record of rs, in file order
Unmatched(z, rs) == SelectSeq(z, LAMBDA l : ~HitBy(rs, RecordsOf(<<l>>)[1]))

\* the third whitespace-separated token of a value, spelled out
HasThirdToken(v) == Len(Fields(v)) >= 3
ThirdToken(v) == Fields(v)[3]

\* positions of the SOA records of the zone file z
SOALines(z) == {i \in 1..Len(z) : z[i].record_type = "SOA"}

\* fragments joined by single spaces, spelled out from the right
RECURSIVE SpaceJoined(_)
SpaceJoined(parts) ==
    IF Len(parts) = 0 THEN <<>>
    ELSE IF Len(parts) = 1 THEN parts[1]
    ELSE SpaceJoined(SubSeq(parts, 1, Len(parts) - 1)) \o <<32>> \o parts[Len(parts)]

\* no two records of rs agree on (type, name, value)
PairwiseDistinct(rs) ==
    \A i, j \in 1..Len(rs) : i # j => ~SameTNV(rs[i], rs[j])

\* the record GetRecords projects from the zone line a remote echoes for the
\* add entry AppendRecords builds for r in zone zn
EchoOf(zn, r) ==
    LET a == AddList(zn, <<r>>)[1]
        l == Line(a.record_type, a.ttl, a.dname, a.data)
    IN  GetRecords(zn, ParseZoneResponse(<<l>>, "ok")).records[1]

\* every name and value of rs is valid UTF-8
IsUTF8(b) == JSONString(b) = b
AllUTF8(rs) == \A i \in 1..Len(rs) : IsUTF8(rs[i].Name) /\ IsUTF8(rs[i].Value)

SameTNVT(r, b) == SameTNV(r, b) /\ r.TTL = b.TTL

\* zone names tried in the round trip: "z.", "w.z.", "." and ""
RoundTripZones == { <<122, 46>>, <<119, 46, 122, 46>>, <<46>>, <<>> }

IsEdit(e) == e.fn = "mass_edit_zone"
IsAppendEdit(e) == IsEdit(e) /\ e.params.add.kind # "absent"
IsDeleteEdit(e) == IsEdit(e) /\ e.params.remove.kind # "absent"

\* some entry of the zone file z has a name or a value fragment that is not
\* valid base64
HasBadBase64(z) ==
    \E i \in 1..Len(z) :
        \/ DecodeString(z[i].dname_b64).err
        \/ \E k \in 1..Len(z[i].data_b64) : DecodeString(z[i].data_b64[k]).err

(***************************************************************************)
(* C1.  For a zone whose read shows an SOA record, the mass_edit_zone call *)
(* of AppendRecords and of DeleteRecords carries the third token of that   *)
(* SOA record's value as 'serial', whether or not the SOA record is among  *)
(* the input records.  (Stated for zones with one SOA record, which has at *)
(* least three tokens.)                                                    *)
(***************************************************************************)
C1_SerialIsSOAThirdToken ==
    \A k \in 2..Len(log[1]) :
        LET e == log[1][k]
            z == log[1][k - 1].before
        IN  (IsEdit(e) /\ Cardinality(SOALines(z)) = 1) =>
                \A i \in SOALines(z) :
                    HasThirdToken(RecordsOf(z)[i].Value) =>
                        e.params.serial = ThirdToken(RecordsOf(z)[i].Value)

\* The AppendRecords half of C1 alone: it holds.
C1_AppendSerialIsSOAThirdToken ==
    \A k \in 2..Len(log[1]) :
        LET e == log[1][k]
            z == log[1][k - 1].before
        IN  (IsAppendEdit(e) /\ Cardinality(SOALines(z)) = 1) =>
                \A i \in SOALines(z) :
                    HasThirdToken(RecordsOf(z)[i].Value) =>
                        e.params.serial = ThirdToken(RecordsOf(z)[i].Value)

(***************************************************************************)
(* C2.  The removal list DeleteRecords sends holds the line_index of an    *)
(* existing record exactly when that record equals some input record on    *)
(* (type, name, value): every duplicate line is included, and an input     *)
(* record without a match adds nothing and is no error (the call is made). *)
(***************************************************************************)
C2_RemovalListIsExactMatches ==
    /\ \A k \in 2..Len(log[1]) :
        LET e == log[1][k]
            z == log[1][k - 1].before
        IN  IsDeleteEdit(e) =>
                Range(e.params.remove.items) = {Itoa(i - 1) : i \in HitLines(z, recs[1])}
    /\ (pc[1] = "done" /\ op[1] = "DeleteRecords" /\ log[1][1].err = "nil") =>
            (Len(log[1]) = 2 /\ IsDeleteEdit(log[1][2]))

\* a DeleteRecords that removed two duplicate lines while another input record
\* matched nothing
C2_Witness ==
    /\ pc[1] = "done" /\ op[1] = "DeleteRecords" /\ ret[1].err = "nil"
    /\ Len(recs[1]) = 2
    /\ \E j \in 1..2 : ~\E i \in 1..Len(log[1][1].before) :
            SameTNV(recs[1][j], RecordsOf(log[1][1].before)[i])
    /\ log[1][2].params.remove.items = <<Itoa(0), Itoa(1)>>
    /\ zone = <<>>

(***************************************************************************)
(* C3.  SetRecords whose DeleteRecords succeeded and whose AppendRecords   *)
(* mass_edit_zone call failed returns that failure and no records; the     *)
(* zone holds what it held less the matched lines, none of the new records *)
(* is added, and no call follows the failed one.                           *)
(***************************************************************************)
C3_SetAppendFailureLeavesDeleted ==
    (op[1] = "SetRecords" /\ \E k \in 1..Len(log[1]) :
                                 IsAppendEdit(log[1][k]) /\ log[1][k].err # "nil") =>
        /\ pc[1] = "done"
        /\ Len(log[1]) = 4
        /\ ret[1] = [records |-> <<>>, err |-> log[1][4].err]
        /\ zone = Unmatched(log[1][1].before, recs[1])
        /\ zone = log[1][4].before

\* a failed append phase after a delete phase that removed a line
C3_Witness ==
    /\ op[1] = "SetRecords" /\ pc[1] = "done"
    /\ Len(log[1]) = 4 /\ log[1][4].err = "API call failed"
    /\ Len(recs[1]) > 0
    /\ Len(zone) < Len(log[1][1].before)

(***************************************************************************)
(* C4.  A failed remote call ends the operation there: the same error is   *)
(* returned with no records, no later call is made, and the zone is as the *)
(* failed call met it.  A failed read means no mass_edit_zone call; a      *)
(* failed DeleteRecords of SetRecords means no AppendRecords.              *)
(***************************************************************************)
C4_FailureAborts ==
    \A k \in 1..Len(log[1]) :
        log[1][k].err # "nil" =>
            /\ k = Len(log[1])
            /\ pc[1] = "done"
            /\ ret[1] = [records |-> <<>>, err |-> log[1][k].err]
            /\ zone = log[1][k].before

\* SetRecords stopped by the failed mass_edit_zone call of its DeleteRecords
C4_Witness ==
    /\ op[1] = "SetRecords" /\ pc[1] = "done"
    /\ Len(log[1]) = 2 /\ log[1][2].err = "transport"
    /\ log[1][2].params.remove.items # <<>>

(***************************************************************************)
(* C5.  GetRecords on a successful parse_zone response with an entry whose *)
(* name or value fragment is not valid base64 fails with a decode error    *)
(* and returns no records.                                                 *)
(***************************************************************************)
C5_BadBase64FailsRead ==
    (pc[1] = "done" /\ op[1] = "GetRecords" /\ HasBadBase64(log[1][1].before)) =>
        (ret[1].err # "nil" /\ ret[1].records = <<>>)

C7_ProjectionOfEntries ==
    (pc[1] = "done" /\ op[1] = "GetRecords" /\ ret[1].err = "nil") =>
        LET z == log[1][1].before
            rs == ret[1].records
            suffix == <<46>> \o zname
        IN  /\ Len(rs) = Len(z)
            /\ \A i \in 1..Len(z) :
                LET d == DecodeString(z[i].dname_b64).out
                    parts == [k \in 1..Len(z[i].data_b64) |->
                                 DecodeString(z[i].data_b64[k]).out]
                IN  /\ rs[i].Type = z[i].record_type
                    /\ IF \E p \in {SubSeq(d, 1, m) : m \in 0..Len(d)} : p \o suffix = d
                       THEN rs[i].Name \o suffix = d
                       ELSE rs[i].Name = d
                    /\ rs[i].Value = SpaceJoined(parts)
                    /\ rs[i].Metadata["line_index"] = <<48 + (i - 1)>>
                    /\ z[i] = lTXT => /\ rs[i].Name = <<116, 46, 122, 46>>
                                      /\ rs[i].Value = <<97, 32, 98>>
                    /\ z[i] = lSOA => rs[i].Name = <<122, 46>>

\* a read of a zone whose second line has the suffix twice and two fragments
C7_Witness ==
    /\ pc[1] = "done" /\ op[1] = "GetRecords" /\ ret[1].err = "nil"
    /\ log[1][1].before = <<lA, lTXT>>
    /\ ret[1].records[2].Name = <<116, 46, 122, 46>>
    /\ ret[1].records[2].Metadata["line_index"] = <<49>>

(***************************************************************************)
(* C8, as claimed.  After a successful read, with no input record matching *)
(* an existing one, DeleteRecords makes exactly one mass_edit_zone call,   *)
(* with an empty removal list, and returns the input records without       *)
(* error.                                                                  *)
(***************************************************************************)
C8_NoMatchStillEditsAndSucceeds ==
    (pc[1] = "done" /\ op[1] = "DeleteRecords" /\ log[1][1].err = "nil"
        /\ HitLines(log[1][1].before, recs[1]) = {}) =>
        /\ Len(log[1]) = 2
        /\ IsDeleteEdit(log[1][2])
        /\ log[1][2].params.remove = [kind |-> "null", items |-> <<>>]
        /\ ret[1] = [records |-> recs[1], err |-> "nil"]

(***************************************************************************)
(* C8, amended.  After a successful read, with no input record matching an *)
(* existing one, DeleteRecords makes exactly one mass_edit_zone call, with *)
(* an empty removal list; it returns the input records without error when  *)
(* that call succeeds, and that call's error with no records when it       *)
(* fails.                                                                  *)
(***************************************************************************)
C8_NoMatchStillEdits ==
    (pc[1] = "done" /\ op[1] = "DeleteRecords" /\ log[1][1].err = "nil"
        /\ HitLines(log[1][1].before, recs[1]) = {}) =>
        /\ Len(log[1]) = 2
        /\ IsDeleteEdit(log[1][2])
        /\ log[1][2].params.remove = [kind |-> "null", items |-> <<>>]
        /\ log[1][2].before = log[1][1].before
        /\ zone = log[1][1].before
        /\ ret[1] = IF log[1][2].err = "nil"
                    THEN [records |-> recs[1], err |-> "nil"]
                    ELSE [records |-> <<>>, err |-> log[1][2].err]

\* a DeleteRecords of a record the zone lacks (the zone has the same type and
\* name with another value) that returned its input
C8_Witness ==
    /\ pc[1] = "done" /\ op[1] = "DeleteRecords"
    /\ recs[1] = <<rA>>
    /\ log[1][1].before = <<lA2, lSOA>>
    /\ Len(log[1]) = 2
    /\ ret[1] = [records |-> <<rA>>, err |-> "nil"]

(***************************************************************************)
(* C9, as claimed.  Under every interleaving of two mutating operations on *)
(* the same zone, when the remote applies a mass_edit_zone call the serial *)
(* it carries is the zone's SOA serial at that moment, and every           *)
(* line_index of its removal list names, at that moment, a line that       *)
(* exactly matches an input record.                                        *)
(***************************************************************************)
C9_EditsFitZoneWhenApplied ==
    \A c \in Clients : \A k \in 1..Len(log[c]) :
        LET e == log[c][k]
            z == e.before
        IN  (IsEdit(e) /\ e.err = "nil") =>
                /\ Cardinality(SOALines(z)) = 1 =>
                      \A i \in SOALines(z) :
                          HasThirdToken(RecordsOf(z)[i].Value) =>
                              e.params.serial = ThirdToken(RecordsOf(z)[i].Value)
                /\ \A li \in Range(e.params.remove.items) :
                      \E i \in HitLines(z, recs[c]) : li = Itoa(i - 1)

\* The line_index half of C9 alone, which the serial that DeleteRecords sends
\* does not touch: it too fails under interleaving.
C9_RemovalFitsZoneWhenApplied ==
    \A c \in Clients : \A k \in 1..Len(log[c]) :
        LET e == log[c][k]
        IN  (IsEdit(e) /\ e.err = "nil") =>
                \A li \in Range(e.params.remove.items) :
                    \E i \in HitLines(e.before, recs[c]) : li = Itoa(i - 1)

\* third tokens of the SOA lines of z, at the positions of I, that have one
SerialsAt(z, I) ==
    {ThirdToken(RecordsOf(z)[i].Value) :
        i \in {x \in I \cap SOALines(z) : HasThirdToken(RecordsOf(z)[x].Value)}}

(***************************************************************************)
(* C9, amended.  Under every interleaving of two mutating operations on    *)
(* the same zone, each mass_edit_zone call carries what its operation's    *)
(* own preceding parse_zone read gave: from AppendRecords the third token  *)
(* of the first SOA record read ("0" without one), from DeleteRecords the  *)
(* third token of an SOA record read that matches an input record ("0"     *)
(* without one); and every line_index of a removal list named, in that     *)
(* read, a line exactly matching an input record.                          *)
(***************************************************************************)
C9_EditsFitZoneAsRead ==
    \A c \in Clients : \A k \in 2..Len(log[c]) :
        LET e == log[c][k]
            z == log[c][k - 1].before
            first == {i \in SOALines(z) : \A x \in SOALines(z) : i <= x}
        IN  IsEdit(e) =>
                /\ log[c][k - 1].fn = "parse_zone"
                /\ IsAppendEdit(e) =>
                      e.params.serial \in
                          (IF SerialsAt(z, first) = {} THEN {<<48>>}
                           ELSE SerialsAt(z, first))
                /\ IsDeleteEdit(e) =>
                      e.params.serial \in
                          (IF SerialsAt(z, HitLines(z, recs[c])) = {} THEN {<<48>>}
                           ELSE SerialsAt(z, HitLines(z, recs[c])))
                /\ \A li \in Range(e.params.remove.items) :
                      \E i \in HitLines(z, recs[c]) : li = Itoa(i - 1)

\* a removal by line_index applied to a zone another caller changed since the
\* read, where that index no longer names a matching line
C9_Witness ==
    \E c \in Clients :
        /\ Len(log[c]) >= 2
        /\ LET e == log[c][Len(log[c])]
               r == log[c][Len(log[c]) - 1]
           IN  /\ IsDeleteEdit(e) /\ e.err = "nil"
               /\ e.before # r.before
               /\ e.params.remove.items # <<>>
               /\ \E li \in Range(e.params.remove.items) :
                      ~\E i \in HitLines(e.before, recs[c]) : li = Itoa(i - 1)

(***************************************************************************)
(* C10, as claimed.  After SetRecords returned without error, alone on a   *)
(* remote that applies every mass-edit, for input records pairwise         *)
(* distinct on (type, name, value): the zone has exactly one line matching *)
(* each input record, however many it had, and the lines that matched no   *)
(* input record are all still there, unchanged and in their order.         *)
(***************************************************************************)
C10_SetLeavesOneLineEach ==
    (pc[1] = "done" /\ op[1] = "SetRecords" /\ ret[1].err = "nil"
        /\ PairwiseDistinct(recs[1])) =>
        /\ \A j \in 1..Len(recs[1]) :
              Cardinality({i \in 1..Len(zone) :
                              SameTNV(recs[1][j], RecordsOf(zone)[i])}) = 1
        /\ Unmatched(zone, recs[1]) = Unmatched(log[1][1].before, recs[1])

(***************************************************************************)
(* C10, amended.  After SetRecords returned without error, alone on a     *)
(* remote that applies every mass-edit, for input records pairwise         *)
(* distinct on (type, name, value) whose names and values are valid UTF-8: *)
(* the zone has exactly one line matching each input record, however many  *)
(* it had, and the lines that matched no input record are all still there, *)
(* unchanged and in their order.                                           *)
(***************************************************************************)
C10_SetLeavesOneLineEachUTF8 ==
    (pc[1] = "done" /\ op[1] = "SetRecords" /\ ret[1].err = "nil"
        /\ PairwiseDistinct(recs[1]) /\ AllUTF8(recs[1])) =>
        /\ \A j \in 1..Len(recs[1]) :
              Cardinality({i \in 1..Len(zone) :
                              SameTNV(recs[1][j], RecordsOf(zone)[i])}) = 1
        /\ Unmatched(zone, recs[1]) = Unmatched(log[1][1].before, recs[1])

\* two duplicate lines replaced by one
C10_Witness ==
    /\ pc[1] = "done" /\ op[1] = "SetRecords" /\ ret[1].err = "nil"
    /\ recs[1] = <<rA, rTXT>>
    /\ log[1][1].before = <<lA, lA>>
    /\ Len(zone) = 2

\* a line with the type and name of an input record and another value stays
C10_WitnessOtherValue ==
    /\ pc[1] = "done" /\ op[1] = "SetRecords" /\ ret[1].err = "nil"
    /\ recs[1] = <<rA>>
    /\ log[1][1].before = <<lA2, lA>>
    /\ Len(zone) = 2 /\ zone[1] = lA2

====
